---- MODULE Spec2Model ----
(***************************************************************************)
(* KTX2 array assembly of nsitu/video-to-ktx2.                             *)
(*                                                                         *)
(* The sequential encoders (KTX2Assembler.encode in renderer-webgl.js,     *)
(* ImagesToKtxSequential.encode and .encodeFromVideoGenerator) pull one    *)
(* layer at a time from a layer source, encode it, parse the KTX2 file the *)
(* encoder produced, validate it against the first layer, keep its mip     *)
(* levels, and after the last layer concatenate the levels mip by mip into *)
(* one array container.  The three loops and the three assembly sections   *)
(* are the same code, statement for statement; the model has one copy.     *)
(*                                                                         *)
(* The byte at index k of mip m of the layer encoded from source item i is *)
(* the label SrcByte(i, m, k), a positive number that tells where the byte *)
(* came from; 0 is the zero byte a fresh Uint8Array is filled with.  A     *)
(* level buffer an encoded layer holds is kept as (item, mip, byteLength); *)
(* Bytes gives its contents.  Combined buffers are kept byte by byte.      *)
(*                                                                         *)
(* Spec and SpecLevels run the encode loop over an abstract layer source;  *)
(* SpecPipeline runs it over imageGenerator of fromImageUrls, with its     *)
(* one-step lookahead fetch and an encoder that can fail; SpecSizes runs   *)
(* the exact-size computation of the mip loop alone, SpecLayout the sizes  *)
(* of a combined level without supercompression.                           *)
(*                                                                         *)
(* SpecVideo runs the two video frame generators with their consumers,     *)
(* SpecSettings the configure call and the setters of the three layer      *)
(* encoders, SpecResizer the image resizer with its worker, SpecLoader the *)
(* loader of the encoder module.                                           *)
(***************************************************************************)
EXTENDS Integers, Sequences, FiniteSets, TLC

\* ---- bounds of the model
MaxLayers == 3
MaxMips == 2
MaxFormat == 2
MaxDim == 5
Slack == 8
MaxSizeDim == 6
MaxSizeLevel == 11
MaxLayoutLayers == 4
MaxSamples == 3
MaxQuality == 2
MaxOptions == 2
MaxTasks == 3
MaxCalls == 3

\* ---- program constants
BlockBytes == 16
BlockDim == 4
Align == 8
ZSTD == 2

Formats == 0..MaxFormat
Dims == {1, MaxDim}
Schemes == {0, ZSTD}
KeyValues == {"undefined", "{KTXwriter}"}
Profiles == {"short", "exact", "long"}

Max(a, b) == IF a >= b THEN a ELSE b
Min(a, b) == IF a <= b THEN a ELSE b

RECURSIVE Pow2(_)
Pow2(n) == IF n = 0 THEN 1 ELSE 2 * Pow2(n - 1)

\* x >> n for the non-negative 32-bit operands the code has
ShiftRight(x, n) == x \div Pow2(n)

\* Math.ceil(a / b)
Ceil(a, b) == (a + b - 1) \div b

uastcBytesPerImageAtLevel_noClamp(level, width, height) ==
    LET wL == ShiftRight(width, level)
        hL == ShiftRight(height, level)
        blocksX == Ceil(wL, BlockDim)
        blocksY == Ceil(hL, BlockDim)
    IN  blocksX * blocksY * BlockBytes

uastcBytesPerImageAtLevel(level, width, height) ==
    LET wL == Max(1, ShiftRight(width, level))
        hL == Max(1, ShiftRight(height, level))
        blocksX == Ceil(wL, BlockDim)
        blocksY == Ceil(hL, BlockDim)
    IN  blocksX * blocksY * BlockBytes

pad8_noWrap(n) ==
    Align - (n % Align)

\* (8 - (exactSize % 8)) % 8
pad8(n) ==
    (Align - (n % Align)) % Align

\* ---- typed arrays
\* byte k (1-based, below 100) of mip m (below 10) of the layer of source item i
SrcByte(i, m, k) == (i * 1000) + (m * 100) + k

\* the contents of a level buffer of an encoded layer
Bytes(levelData) ==
    [k \in 1..levelData.byteLength |-> SrcByte(levelData.src, levelData.mip, k)]

Zeros(n) == [k \in 1..n |-> 0]

\* TypedArray.prototype.subarray(begin, end): end is clamped to the length
subarray(src, begin, end) == SubSeq(src, begin + 1, Min(end, Len(src)))

\* TypedArray.prototype.set(src, offset) when src fits
set(combined, src, offset) ==
    [k \in 1..Len(combined) |->
        IF k > offset /\ k <= offset + Len(src) THEN src[k - offset] ELSE combined[k]]

\* ---- what the encoder and ktx-parse's read() hand to the assembler
\* The byte length of a level buffer against the exact 4x4/16-byte size of its
\* level: half of it (a format of 8 bytes per block), the exact size, or the
\* exact size and Slack bytes more (an over-allocated or incompressible
\* level).  A level holds at least one block, so no buffer is empty.
LevelLen(profile, exact) ==
    CASE profile = "short" -> exact \div 2
      [] profile = "exact" -> exact
      [] profile = "long"  -> exact + Slack

EncodedLevel(i, m, w, h, scheme, profile) ==
    LET exact == uastcBytesPerImageAtLevel(m, w, h)
        len == LevelLen(profile, exact)
    IN  [levelData |-> [src |-> i, mip |-> m, byteLength |-> len],
         uncompressedByteLength |-> IF scheme = 0 THEN len ELSE exact]

ParsedContainer(i, f, w, h, scheme, kv, n, profile) ==
    [vkFormat |-> f,
     typeSize |-> 1,
     pixelWidth |-> w,
     pixelHeight |-> h,
     supercompressionScheme |-> scheme,
     keyValue |-> kv,
     dataFormatDescriptor |-> i,
     levels |-> [m \in 1..n |-> EncodedLevel(i, m - 1, w, h, scheme, profile)]]

\* The containers the encoder can produce for source item i.  Validation and
\* the container header read vkFormat, the dimensions, the number of levels
\* and keyValue and never a level's bytes; the copy loop reads the levels, the
\* base dimensions and the base scheme and never vkFormat or keyValue.  The
\* two families below each vary what one of the two reads.
HeaderContainers(i) ==
    {ParsedContainer(i, f, w, h, 0, kv, n, "exact") :
        f \in Formats, w \in Dims, h \in Dims,
        kv \in (IF i = 0 THEN KeyValues ELSE {"{KTXwriter}"}),
        n \in 1..MaxMips}

LevelContainers(i) ==
    {ParsedContainer(i, 0, w, h, scheme, "{KTXwriter}", n, profile) :
        w \in Dims, h \in Dims, scheme \in Schemes,
        n \in 1..MaxMips, profile \in Profiles}

\* ---- errors
NoError == [kind |-> "none", index |-> -1, expected |-> <<>>, actual |-> <<>>]
Error(kind, index, expected, actual) ==
    [kind |-> kind, index |-> index, expected |-> expected, actual |-> actual]

ConsistencyErrors == {"format", "size", "mipcount"}
InputErrors == {"NoUrls", "NoInputLayers"}

\* ---- KTX2Assembler
NoBaseParams ==
    [baseFormat |-> -1, baseWidth |-> -1, baseHeight |-> -1,
     baseSupercompression |-> -1, baseKeyValue |-> "null", baseTypeSize |-> -1,
     sharedDfd |-> -1, firstLayerMipCount |-> -1]

extractBaseParams(container) ==
    [baseFormat |-> container.vkFormat,
     baseWidth |-> container.pixelWidth,
     baseHeight |-> container.pixelHeight,
     baseSupercompression |-> container.supercompressionScheme,
     baseKeyValue |-> container.keyValue,
     baseTypeSize |-> container.typeSize,
     sharedDfd |-> container.dataFormatDescriptor,
     firstLayerMipCount |-> Len(container.levels)]

FormatMismatch_noWildcard(baseFormat, vkFormat) ==
    vkFormat # baseFormat

FormatMismatch(baseFormat, vkFormat) ==
    baseFormat # 0 /\ vkFormat # 0 /\ vkFormat # baseFormat

SizeMismatch_widthOnly(baseWidth, baseHeight, pixelWidth, pixelHeight) ==
    pixelWidth # baseWidth

SizeMismatch(baseWidth, baseHeight, pixelWidth, pixelHeight) ==
    pixelWidth # baseWidth \/ pixelHeight # baseHeight

MipCountMismatch_onlyFewer(firstLayerMipCount, levelCount) ==
    levelCount < firstLayerMipCount

MipCountMismatch(firstLayerMipCount, levelCount) ==
    levelCount # firstLayerMipCount

validateLayerConsistency_formatOnly(container, bp, layerIdx) ==
    IF FormatMismatch(bp.baseFormat, container.vkFormat)
    THEN Error("format", layerIdx, <<bp.baseFormat>>, <<container.vkFormat>>)
    ELSE NoError

\* the error thrown for this layer, or NoError
validateLayerConsistency(container, bp, layerIdx) ==
    IF FormatMismatch(bp.baseFormat, container.vkFormat)
    THEN Error("format", layerIdx, <<bp.baseFormat>>, <<container.vkFormat>>)
    ELSE IF SizeMismatch(bp.baseWidth, bp.baseHeight,
                         container.pixelWidth, container.pixelHeight)
    THEN Error("size", layerIdx, <<bp.baseWidth, bp.baseHeight>>,
               <<container.pixelWidth, container.pixelHeight>>)
    ELSE IF MipCountMismatch(bp.firstLayerMipCount, Len(container.levels))
    THEN Error("mipcount", layerIdx, <<bp.firstLayerMipCount>>,
               <<Len(container.levels)>>)
    ELSE NoError

\* the entry pushed on encodedLayers
EncodedLayer(container) ==
    [levels |-> container.levels,
     format |-> container.vkFormat,
     width |-> container.pixelWidth,
     height |-> container.pixelHeight]

\* ---- _assembleMipLevels
\* layer.levels[mipLevel], or "undefined" when the layer has no such level
Undefined ==
    [levelData |-> [src |-> -1, mip |-> -1, byteLength |-> -1], uncompressedByteLength |-> -1]
LevelAt(layer, mipLevel) ==
    IF mipLevel + 1 \in DOMAIN layer.levels THEN layer.levels[mipLevel + 1] ELSE Undefined

layersOfMip(layers, mipLevel) ==
    [i \in 1..Len(layers) |-> LevelAt(layers[i], mipLevel)]

RECURSIVE SumByteLength(_, _)
SumByteLength(levels, i) ==
    IF i > Len(levels) THEN 0
    ELSE levels[i].levelData.byteLength + SumByteLength(levels, i + 1)

RECURSIVE SumUncompressed(_, _)
SumUncompressed(levels, i) ==
    IF i > Len(levels) THEN 0
    ELSE levels[i].uncompressedByteLength + SumUncompressed(levels, i + 1)

totalSizeOf(scheme, perImageWithPad, layerCount, layersForThisMip) ==
    IF scheme = 0 THEN perImageWithPad * layerCount
    ELSE SumByteLength(layersForThisMip, 1)

pieceOf_offByOne(scheme, srcData, exactSize) ==
    IF scheme = 0 THEN subarray(srcData, 0, exactSize - 1) ELSE srcData

pieceOf_alwaysTrim(scheme, srcData, exactSize) ==
    subarray(srcData, 0, exactSize)

\* the bytes one layer contributes: trimmed for NONE, as they are otherwise
pieceOf(scheme, srcData, exactSize) ==
    IF scheme = 0 THEN subarray(srcData, 0, exactSize) ELSE srcData

offsetAfter_stuckWhenCompressed(scheme, offset, piece, perImagePadding) ==
    IF scheme = 0
    THEN offset + Len(piece) + (IF perImagePadding > 0 THEN perImagePadding ELSE 0)
    ELSE offset

\* offset after one layer has been copied
offsetAfter(scheme, offset, piece, perImagePadding) ==
    IF scheme = 0
    THEN offset + Len(piece) + (IF perImagePadding > 0 THEN perImagePadding ELSE 0)
    ELSE offset + Len(piece)

totalUncompressedOf_alwaysTotal(scheme, totalSize, layersForThisMip) ==
    totalSize

totalUncompressedOf(scheme, totalSize, layersForThisMip) ==
    IF scheme = 0 THEN totalSize ELSE SumUncompressed(layersForThisMip, 1)

\* the copy loop over the layers of one mip level, from layer i on; starts
\* collects the value of offset at each set() call; a set() past the end of
\* combined throws a RangeError
RECURSIVE copyLayers(_, _, _, _, _, _, _, _)
copyLayers(scheme, layersForThisMip, i, combined, offset, starts, exactSize, perImagePadding) ==
    IF i > Len(layersForThisMip)
    THEN [thrown |-> "none", levelData |-> combined, offset |-> offset, starts |-> starts]
    ELSE LET srcData == Bytes(layersForThisMip[i].levelData)
             piece == pieceOf(scheme, srcData, exactSize)
         IN  IF offset + Len(piece) > Len(combined)
             THEN [thrown |-> "RangeError", levelData |-> combined,
                   offset |-> offset, starts |-> Append(starts, offset)]
             ELSE copyLayers(scheme, layersForThisMip, i + 1,
                             set(combined, piece, offset),
                             offsetAfter(scheme, offset, piece, perImagePadding),
                             Append(starts, offset), exactSize, perImagePadding)

\* one iteration of the mip loop
assembleMipLevel(layers, bp, mipLevel) ==
    LET layersForThisMip == layersOfMip(layers, mipLevel)
        scheme == bp.baseSupercompression
        exactSize == uastcBytesPerImageAtLevel(mipLevel, bp.baseWidth, bp.baseHeight)
        perImagePadding == pad8(exactSize)
        perImageWithPad == exactSize + perImagePadding
    IN  IF \E i \in 1..Len(layers) : layersForThisMip[i] = Undefined
        THEN [thrown |-> "TypeError", levelData |-> <<>>, uncompressedByteLength |-> 0,
              offset |-> 0, starts |-> <<>>]
        ELSE LET totalSize == totalSizeOf(scheme, perImageWithPad, Len(layers),
                                          layersForThisMip)
                 done == copyLayers(scheme, layersForThisMip, 1, Zeros(totalSize), 0,
                                    <<>>, exactSize, perImagePadding)
             IN  [thrown |-> done.thrown,
                  levelData |-> done.levelData,
                  uncompressedByteLength |->
                      totalUncompressedOf(scheme, totalSize, layersForThisMip),
                  offset |-> done.offset,
                  starts |-> done.starts]

\* the mip loop: the levels assembled until the loop ends or one throws
RECURSIVE mipLoop(_, _, _, _, _)
mipLoop(layers, bp, mipLevel, mipCount, acc) ==
    IF mipLevel >= mipCount THEN [thrown |-> "none", levels |-> acc]
    ELSE LET lvl == assembleMipLevel(layers, bp, mipLevel)
         IN  IF lvl.thrown # "none"
             THEN [thrown |-> lvl.thrown, levels |-> acc]
             ELSE mipLoop(layers, bp, mipLevel + 1, mipCount, Append(acc, lvl))

\* encodedLayers[0].levels.length throws a TypeError on an empty array
assembleMipLevels(layers, bp) ==
    IF Len(layers) = 0 THEN [thrown |-> "TypeError", levels |-> <<>>]
    ELSE mipLoop(layers, bp, 0, Len(layers[1].levels), <<>>)

NoContainer ==
    [vkFormat |-> -1, typeSize |-> -1, pixelWidth |-> -1, pixelHeight |-> -1,
     pixelDepth |-> -1, layerCount |-> -1, faceCount |-> -1, levelCount |-> -1,
     supercompressionScheme |-> -1, dataFormatDescriptor |-> -1,
     keyValue |-> "null", globalData |-> "undefined"]

createArrayContainer_rawKeyValue(layers, bp, levels) ==
    [vkFormat |-> bp.baseFormat,
     typeSize |-> bp.baseTypeSize,
     pixelWidth |-> bp.baseWidth,
     pixelHeight |-> bp.baseHeight,
     pixelDepth |-> 0,
     layerCount |-> Len(layers),
     faceCount |-> 1,
     levelCount |-> Len(levels),
     supercompressionScheme |-> bp.baseSupercompression,
     dataFormatDescriptor |-> bp.sharedDfd,
     keyValue |-> bp.baseKeyValue,
     globalData |-> "null"]

\* the container's levels are the variable combinedLevels
createArrayContainer(layers, bp, levels) ==
    [vkFormat |-> bp.baseFormat,
     typeSize |-> bp.baseTypeSize,
     pixelWidth |-> bp.baseWidth,
     pixelHeight |-> bp.baseHeight,
     pixelDepth |-> 0,
     layerCount |-> Len(layers),
     faceCount |-> 1,
     levelCount |-> Len(levels),
     supercompressionScheme |-> bp.baseSupercompression,
     dataFormatDescriptor |-> bp.sharedDfd,
     keyValue |-> IF bp.baseKeyValue \in {"undefined", "null"} THEN "{}"
                  ELSE bp.baseKeyValue,
     globalData |-> "null"]

\* ---- state
VARIABLES
    entry,            \* the function called
    pc,               \* where the call is
    pulled,           \* items the layer source has yielded
    encoderCalls,     \* calls of the encoder
    assemblerCalls,   \* times the assembly section was entered
    encodedLayers,    \* encodedLayers of encode()
    baseParams,       \* baseParams, all null before the first layer
    combinedLevels,   \* levels of the container: levelData, uncompressedByteLength,
                      \* and starts, the offset each layer was written at
    arrayContainer,   \* the header fields of the container handed to write()
    parsed,           \* header of the container read() returned last
    written,          \* write() was called
    err,              \* the error the call rejected with
    encoderFailure,   \* how the encoder failed on the layer in flight, if it did
    urlCount,         \* urls.length of fromImageUrls
    nextFetchPromise, \* index of the URL whose fetch nextFetchPromise stands for
    fetchState,       \* per URL: fetch not started, pending, fulfilled or rejected
    item,             \* index of the URL whose data the generator yielded last
    sized,            \* an evaluation of uastcBytesPerImageAtLevel
    slotted,          \* the sizes _assembleMipLevels computes for one mip level
    videoEntry,       \* the video function called
    framePc,          \* where the frame generator and its consumer are
    sampleTotal,      \* samples sink.samples() has to deliver
    maxFrames,        \* options.maxFrames, NoLimit for null
    frameCount,       \* frameCount of the frame generator
    obtained,         \* samples the for await of the generator has received
    sampleCloses,     \* per sample: calls of videoSample.close()
    frameCloses,      \* per sample: calls of videoFrame.close(), NoFrame when
                      \* toVideoFrame() has not returned a frame for it
    encodeState,      \* per frame: the encode of its pixels
    encodingSettings, \* encodingSettings of image_to_ktx.js
    nativeSettings,   \* what the last encode set on the native encoder, and by
                      \* which encoder; none since configure was last called
    worker,           \* worker of image-resizer.js
    taskCounter,      \* taskCounter of image-resizer.js
    pendingTasks,     \* keys of the pendingTasks map
    promises,         \* per task id: the promise resizeImageToPOT returned
    settleCalls,      \* per task id: calls of its resolve or reject
    inbox,            \* tasks posted to the worker and not yet answered
    replies,          \* messages of the worker on their way to onmessage
    basisPromise,     \* basisPromise of load_basis.js
    basisModule,      \* basisModule of load_basis.js
    injected,         \* script elements appended to document.head
    loadPc,           \* where the load of the encoder script is, or how it ended
    returned,         \* per call of loadBasisModule: the promise it returned
    got               \* what getBasisModule() returned last

\* the state of the parts that the encode loop of the assembler does not touch
videoVars == <<videoEntry, framePc, sampleTotal, maxFrames, frameCount, obtained,
               sampleCloses, frameCloses, encodeState>>

settingsVars == <<encodingSettings, nativeSettings>>

workerVars == <<worker, taskCounter, pendingTasks, promises, settleCalls, inbox,
                replies>>

loaderVars == <<basisPromise, basisModule, injected, loadPc, returned, got>>

\* the module-level state of the encoder modules
moduleVars == <<settingsVars, workerVars, loaderVars>>

auxVars == <<slotted, videoVars, moduleVars>>

vars == <<entry, pc, pulled, encoderCalls, assemblerCalls, encodedLayers, baseParams,
          combinedLevels, arrayContainer, parsed, written, err,
          encoderFailure, urlCount, nextFetchPromise, fetchState, item, sized, auxVars>>

\* the state of imageGenerator of fromImageUrls
sourceVars == <<urlCount, nextFetchPromise, fetchState, item>>

NoFetches == [k \in 0..(MaxLayers - 1) |-> "idle"]
NoSize == [width |-> -1, height |-> -1, level |-> -1, bytes |-> -1]
NoSlot ==
    [width |-> -1, height |-> -1, layerCount |-> -1, mipLevel |-> -1,
     exactSize |-> -1, perImagePadding |-> -1, perImageWithPad |-> -1,
     totalSize |-> -1]

NoLimit == -1
NoFrame == -1
SampleIndexes == 0..(MaxSamples - 1)

InitVideo ==
    /\ videoEntry = "none"
    /\ framePc = "idle"
    /\ sampleTotal = 0
    /\ maxFrames = NoLimit
    /\ frameCount = 0
    /\ obtained = 0
    /\ sampleCloses = [k \in SampleIndexes |-> 0]
    /\ frameCloses = [k \in SampleIndexes |-> NoFrame]
    /\ encodeState = [k \in SampleIndexes |-> "none"]

\* let encodingSettings = { ... } of image_to_ktx.js, and the equal defaults
\* of the KTX2Encoder constructor; multithreading is threadingSupported
DefaultSettings ==
    [multithreading |-> TRUE, uastcQuality |-> 1, rdoQuality |-> 1,
     rdoEnabled |-> FALSE, srgb |-> TRUE, mipmaps |-> TRUE,
     supercompression |-> FALSE, basisTexFormat |-> 1]

NoNative == [encoder |-> "none", set |-> <<>>]

InitSettings ==
    /\ encodingSettings = DefaultSettings
    /\ nativeSettings = NoNative

TaskIds == 1..MaxTasks

InitWorker ==
    /\ worker = "null"
    /\ taskCounter = 0
    /\ pendingTasks = {}
    /\ promises = [t \in TaskIds |-> "none"]
    /\ settleCalls = [t \in TaskIds |-> 0]
    /\ inbox = {}
    /\ replies = {}

CallNumbers == 1..MaxCalls
\* promises by identity: the one promise the module keeps in basisPromise,
\* and no promise
TheBasisPromise == 0
NotReturned == [promise |-> -1, state |-> "none"]

InitLoader ==
    /\ basisPromise = "null"
    /\ basisModule = "null"
    /\ injected = 0
    /\ loadPc = "none"
    /\ returned = [c \in CallNumbers |-> NotReturned]
    /\ got = "none"

InitAux ==
    /\ slotted = NoSlot
    /\ InitVideo
    /\ InitSettings
    /\ InitWorker
    /\ InitLoader

NoParsed ==
    [vkFormat |-> -1, pixelWidth |-> -1, pixelHeight |-> -1,
     supercompressionScheme |-> -1, levelCount |-> -1]

HeaderOf(container) ==
    [vkFormat |-> container.vkFormat,
     pixelWidth |-> container.pixelWidth,
     pixelHeight |-> container.pixelHeight,
     supercompressionScheme |-> container.supercompressionScheme,
     levelCount |-> Len(container.levels)]

layerIndex == Len(encodedLayers)

UrlEntries == {"fromImageUrls"}
SourceEntries == {"encode"}
EagerEntries == {"ImagesToKtx.encode"}
Entries == UrlEntries \cup SourceEntries \cup EagerEntries

Init ==
    /\ entry = "none"
    /\ pc = "idle"
    /\ pulled = 0
    /\ encoderCalls = 0
    /\ assemblerCalls = 0
    /\ encodedLayers = <<>>
    /\ baseParams = NoBaseParams
    /\ combinedLevels = <<>>
    /\ arrayContainer = NoContainer
    /\ parsed = NoParsed
    /\ written = FALSE
    /\ err = NoError
    /\ encoderFailure = "none"
    /\ urlCount = 0
    /\ nextFetchPromise = -1
    /\ fetchState = NoFetches
    /\ item = -1
    /\ sized = NoSize
    /\ InitAux

Reject(e) ==
    /\ pc' = "rejected"
    /\ err' = e

\* KTX2Assembler.fromImageUrls(urls), ImagesToKtxSequential.encodeFromUrls(urls),
\* with empty = (!urls || urls.length === 0)
CallWithUrls(empty) ==
    /\ pc = "idle"
    /\ entry' = "fromImageUrls"
    /\ IF empty THEN Reject(Error("NoUrls", -1, <<>>, <<>>))
       ELSE pc' = "pull" /\ err' = err
    /\ UNCHANGED <<pulled, encoderCalls, assemblerCalls, encodedLayers, baseParams,
                   combinedLevels, arrayContainer, parsed, written>>
    /\ UNCHANGED <<encoderFailure, sourceVars, sized, auxVars>>

\* KTX2Assembler.encode(layerSource), .fromVideoUrl, ImagesToKtxSequential.encode(layers),
\* .encodeFromVideoUrl: nothing is checked before the loop
CallWithSource ==
    /\ pc = "idle"
    /\ entry' = "encode"
    /\ pc' = "pull"
    /\ UNCHANGED <<pulled, encoderCalls, assemblerCalls, encodedLayers, baseParams,
                   combinedLevels, arrayContainer, parsed, written, err>>
    /\ UNCHANGED <<encoderFailure, sourceVars, sized, auxVars>>

\* for await: the source yields its next item and the encoder is called on it
Pull ==
    /\ pc = "pull"
    /\ pulled < MaxLayers
    /\ pulled' = pulled + 1
    /\ encoderCalls' = encoderCalls + 1
    /\ pc' = "encode"
    /\ UNCHANGED <<entry, assemblerCalls, encodedLayers, baseParams, combinedLevels,
                   arrayContainer, parsed, written, err>>
    /\ UNCHANGED <<encoderFailure, sourceVars, sized, auxVars>>

\* the encoder resolves with a KTX2 file; read(), validation, push
Encoded(container) ==
    /\ pc = "encode"
    /\ parsed' = HeaderOf(container)
    /\ LET e == IF layerIndex = 0 THEN NoError
                ELSE validateLayerConsistency(container, baseParams, layerIndex)
       IN  IF e # NoError
           THEN /\ Reject(e)
                /\ UNCHANGED <<encodedLayers, baseParams>>
           ELSE /\ baseParams' = IF layerIndex = 0 THEN extractBaseParams(container)
                                 ELSE baseParams
                /\ encodedLayers' = Append(encodedLayers, EncodedLayer(container))
                /\ pc' = "pull"
                /\ err' = err
    /\ UNCHANGED <<entry, pulled, encoderCalls, assemblerCalls, combinedLevels,
                   arrayContainer, written>>
    /\ UNCHANGED <<encoderFailure, sourceVars, sized, auxVars>>

EncoderSettles ==
    /\ pc = "encode"
    /\ \E c \in HeaderContainers(layerIndex) : Encoded(c)

EncoderSettlesLevels ==
    /\ pc = "encode"
    /\ \E c \in LevelContainers(layerIndex) : Encoded(c)

\* the source is exhausted: assemble, build the container, write it
Assemble ==
    /\ pc = "pull"
    /\ entry = "encode" \/ pulled >= 1
    /\ assemblerCalls' = assemblerCalls + 1
    /\ LET r == assembleMipLevels(encodedLayers, baseParams)
       IN  IF r.thrown # "none"
           THEN /\ Reject(Error(r.thrown, -1, <<>>, <<>>))
                /\ UNCHANGED <<combinedLevels, arrayContainer, written>>
           ELSE /\ combinedLevels' = r.levels
                /\ arrayContainer' = createArrayContainer(encodedLayers, baseParams, r.levels)
                /\ written' = TRUE
                /\ pc' = "resolved"
                /\ err' = err
    /\ UNCHANGED <<entry, pulled, encoderCalls, encodedLayers, baseParams, parsed>>
    /\ UNCHANGED <<encoderFailure, sourceVars, sized, auxVars>>

\* ImagesToKtx.encode(layers): the native encoder builds the whole array
CallEager(n) ==
    /\ pc = "idle"
    /\ entry' = "ImagesToKtx.encode"
    /\ IF n = 0
       THEN Reject(Error("NoInputLayers", -1, <<>>, <<>>)) /\ pulled' = pulled
       ELSE pc' = "native" /\ err' = err /\ pulled' = n
    /\ UNCHANGED <<encoderCalls, assemblerCalls, encodedLayers, baseParams,
                   combinedLevels, arrayContainer, parsed, written>>
    /\ UNCHANGED <<encoderFailure, sourceVars, sized, auxVars>>

NativeEncoded ==
    /\ pc = "native"
    /\ encoderCalls' = encoderCalls + 1
    /\ pc' = "resolved"
    /\ UNCHANGED <<entry, pulled, assemblerCalls, encodedLayers, baseParams,
                   combinedLevels, arrayContainer, parsed, written, err>>
    /\ UNCHANGED <<encoderFailure, sourceVars, sized, auxVars>>

Next ==
    \/ \E empty \in BOOLEAN : CallWithUrls(empty)
    \/ CallWithSource
    \/ \E n \in 0..MaxLayers : CallEager(n)
    \/ Pull
    \/ EncoderSettles
    \/ Assemble
    \/ NativeEncoded

Spec == Init /\ [][Next]_vars

\* the sequential encoder over layers whose level buffers and schemes vary
NextLevels ==
    \/ CallWithSource
    \/ Pull
    \/ EncoderSettlesLevels
    \/ Assemble

SpecLevels == Init /\ [][NextLevels]_vars

\* ---- fromImageUrls: imageGenerator feeding encode()
\* the containers the encoder produces from the data of URL i: one level, the
\* universal format; the dimensions vary, so a layer can fail validation
PipelineContainers(i) ==
    {ParsedContainer(i, 0, w, h, 0, "{KTXwriter}", 1, "exact") : w \in Dims, h \in Dims}

startFetch_twoAhead(fs, k) ==
    [j \in DOMAIN fs |-> IF j \in {k, k + 1} THEN "pending" ELSE fs[j]]

\* fetch(urls[k]).then(...) is created: the request is in flight
startFetch(fs, k) ==
    [fs EXCEPT ![k] = "pending"]

yieldedData_afterLookahead(awaited, lookahead) ==
    lookahead

\* const data = await nextFetchPromise, taken before nextFetchPromise is
\* reassigned to the lookahead fetch
yieldedData(awaited, lookahead) ==
    awaited

\* fromImageUrls(urls) with n = urls.length; the first next() of the for
\* await runs the generator up to its first await, which starts fetch(urls[0])
CallFromImageUrls(n) ==
    /\ pc = "idle"
    /\ entry' = "fromImageUrls"
    /\ urlCount' = n
    /\ IF n = 0
       THEN /\ Reject(Error("NoUrls", -1, <<>>, <<>>))
            /\ UNCHANGED <<nextFetchPromise, fetchState>>
       ELSE /\ pc' = "pull"
            /\ err' = err
            /\ nextFetchPromise' = 0
            /\ fetchState' = startFetch(fetchState, 0)
    /\ UNCHANGED <<pulled, encoderCalls, assemblerCalls, encodedLayers, baseParams,
                   combinedLevels, arrayContainer, parsed, written,
                   encoderFailure, item, sized, auxVars>>

\* a fetch in flight settles: r.ok and the body arrives, or it fails; this
\* happens whatever the encode loop is doing, also after the call has ended
FetchSettles(k, ok) ==
    /\ fetchState[k] = "pending"
    /\ fetchState' = [fetchState EXCEPT ![k] = IF ok THEN "ok" ELSE "failed"]
    /\ UNCHANGED <<entry, pc, pulled, encoderCalls, assemblerCalls, encodedLayers,
                   baseParams, combinedLevels, arrayContainer, parsed, written, err,
                   encoderFailure, urlCount, nextFetchPromise, item, sized, auxVars>>

\* the awaited fetch of iteration i = pulled is fulfilled: the lookahead fetch
\* is started, the item is yielded and the loop body calls the encoder
Yield ==
    /\ pc = "pull"
    /\ pulled < urlCount
    /\ fetchState[nextFetchPromise] = "ok"
    /\ LET lookahead == IF pulled + 1 < urlCount THEN pulled + 1 ELSE nextFetchPromise
       IN  /\ nextFetchPromise' = lookahead
           /\ fetchState' = IF pulled + 1 < urlCount
                             THEN startFetch(fetchState, pulled + 1)
                             ELSE fetchState
           /\ item' = yieldedData(nextFetchPromise, lookahead)
    /\ pulled' = pulled + 1
    /\ encoderCalls' = encoderCalls + 1
    /\ pc' = "encode"
    /\ UNCHANGED <<entry, assemblerCalls, encodedLayers, baseParams, combinedLevels,
                   arrayContainer, parsed, written, err, encoderFailure, urlCount, sized, auxVars>>

\* the awaited fetch is rejected: the generator throws, the for await
\* throws, encode() rejects with the fetch error
SourceThrows ==
    /\ pc = "pull"
    /\ pulled < urlCount
    /\ fetchState[nextFetchPromise] = "failed"
    /\ Reject(Error("FetchError", nextFetchPromise, <<>>, <<>>))
    /\ UNCHANGED <<entry, pulled, encoderCalls, assemblerCalls, encodedLayers,
                   baseParams, combinedLevels, arrayContainer, parsed, written,
                   encoderFailure, sourceVars, sized, auxVars>>

EncoderSettlesPipelined ==
    /\ pc = "encode"
    /\ \E c \in PipelineContainers(item) : Encoded(c)

\* KTX2Encoder.encode fails.  reject() is called for zero output bytes and for
\* an HDR source.  An exception raised while the encoder is configured or run
\* is thrown inside the async executor of new Promise(async ...): it rejects
\* the executor's own promise, neither resolve nor reject is called, and the
\* promise encode() awaits never settles.
EncoderRejections == {"EncodingFailed", "HDRNotSupported"}
EncoderFailures == EncoderRejections \cup {"Raised"}

EncoderFails(how) ==
    /\ pc = "encode"
    /\ encoderFailure' = how
    /\ IF how \in EncoderRejections
       THEN Reject(Error(how, layerIndex, <<>>, <<>>))
       ELSE pc' = "pending" /\ err' = err
    /\ UNCHANGED <<entry, pulled, encoderCalls, assemblerCalls, encodedLayers,
                   baseParams, combinedLevels, arrayContainer, parsed, written,
                   sourceVars, sized, auxVars>>

\* the generator's loop has run urls.length times: the for await ends
GeneratorReturns ==
    /\ pulled = urlCount
    /\ Assemble

NextPipeline ==
    \/ \E n \in 0..MaxLayers : CallFromImageUrls(n)
    \/ \E k \in 0..(MaxLayers - 1), ok \in BOOLEAN : FetchSettles(k, ok)
    \/ Yield
    \/ SourceThrows
    \/ EncoderSettlesPipelined
    \/ \E how \in EncoderFailures : EncoderFails(how)
    \/ GeneratorReturns

SpecPipeline == Init /\ [][NextPipeline]_vars

\* ---- the exact size of one layer, mip level after mip level
\* base dimensions: the small ones, and the 1024 of a full mip chain
SizeDims == (1..MaxSizeDim) \cup {1024}

InitSizes ==
    /\ entry = "none"
    /\ pc = "idle"
    /\ pulled = 0
    /\ encoderCalls = 0
    /\ assemblerCalls = 0
    /\ encodedLayers = <<>>
    /\ baseParams = NoBaseParams
    /\ combinedLevels = <<>>
    /\ arrayContainer = NoContainer
    /\ parsed = NoParsed
    /\ written = FALSE
    /\ err = NoError
    /\ encoderFailure = "none"
    /\ urlCount = 0
    /\ nextFetchPromise = -1
    /\ fetchState = NoFetches
    /\ item = -1
    /\ sized \in {[width |-> w, height |-> h, level |-> -1, bytes |-> -1] :
                      w \in SizeDims, h \in SizeDims}
    /\ InitAux

\* one turn of the mip loop: mipLevel++ and exactSize of that level
NextMipSize ==
    /\ sized.level < MaxSizeLevel
    /\ sized' = [sized EXCEPT
                     !.level = sized.level + 1,
                     !.bytes = uastcBytesPerImageAtLevel(sized.level + 1,
                                                         sized.width, sized.height)]
    /\ UNCHANGED <<entry, pc, pulled, encoderCalls, assemblerCalls, encodedLayers,
                   baseParams, combinedLevels, arrayContainer, parsed, written, err,
                   encoderFailure, sourceVars, auxVars>>

NextSizes == NextMipSize

SpecSizes == InitSizes /\ [][NextSizes]_vars

\* ---- the sizes of one combined mip level when nothing is supercompressed
\* base dimensions: those of the size table, and the 512 of a ten level chain
LayoutDims == SizeDims \cup {512}

\* _assembleMipLevels is entered with baseWidth w, baseHeight h, scheme NONE
\* and n encoded layers
StartLayout(w, h, n) ==
    /\ slotted = NoSlot
    /\ slotted' = [NoSlot EXCEPT !.width = w, !.height = h, !.layerCount = n]
    /\ UNCHANGED <<entry, pc, pulled, encoderCalls, assemblerCalls, encodedLayers,
                   baseParams, combinedLevels, arrayContainer, parsed, written, err,
                   encoderFailure, sourceVars, sized, videoVars, moduleVars>>

\* one turn of the mip loop up to the allocation of the combined buffer:
\* exactSize, perImagePadding, perImageWithPad, totalSize
NextMipLayout ==
    /\ slotted # NoSlot
    /\ slotted.mipLevel < MaxSizeLevel
    /\ LET mipLevel == slotted.mipLevel + 1
           exactSize == uastcBytesPerImageAtLevel(mipLevel, slotted.width,
                                                  slotted.height)
           perImagePadding == pad8(exactSize)
           perImageWithPad == exactSize + perImagePadding
       IN  slotted' = [slotted EXCEPT
                           !.mipLevel = mipLevel,
                           !.exactSize = exactSize,
                           !.perImagePadding = perImagePadding,
                           !.perImageWithPad = perImageWithPad,
                           !.totalSize = totalSizeOf(0, perImageWithPad,
                                                     slotted.layerCount, <<>>)]
    /\ UNCHANGED <<entry, pc, pulled, encoderCalls, assemblerCalls, encodedLayers,
                   baseParams, combinedLevels, arrayContainer, parsed, written, err,
                   encoderFailure, sourceVars, sized, videoVars, moduleVars>>

NextLayout ==
    \/ \E w \in LayoutDims, h \in LayoutDims, n \in 1..MaxLayoutLayers :
           StartLayout(w, h, n)
    \/ NextMipLayout

SpecLayout == Init /\ [][NextLayout]_vars

\* ---- the video frame generators
\* rgbaFrameGenerator of KTX2Assembler.fromVideoUrl yields pixels that the for
\* await of encode() hands to the encoder; videoFrameGenerator of
\* ImagesToKtxSequential.encodeFromVideoUrl encodes inside its try block and
\* yields the encoded frame to encodeFromVideoGenerator
VideoEntries == {"fromVideoUrl", "encodeFromVideoUrl"}

\* everything but the state of the video frame generators
encodeVars == <<entry, pc, pulled, encoderCalls, assemblerCalls, encodedLayers,
                baseParams, combinedLevels, arrayContainer, parsed, written, err,
                encoderFailure, sourceVars, sized, slotted>>

\* the sample the generator's loop body is working on
current == obtained - 1

close(closes, k) ==
    [closes EXCEPT ![k] = @ + 1]

\* the function is called on a video of total samples with options.maxFrames
\* = limit; the generator runs from the first next() of the consumer
CallFromVideoUrl(e, total, limit) ==
    /\ framePc = "idle"
    /\ videoEntry' = e
    /\ sampleTotal' = total
    /\ maxFrames' = limit
    /\ framePc' = "next"
    /\ UNCHANGED <<frameCount, obtained, sampleCloses, frameCloses, encodeState>>
    /\ UNCHANGED <<encodeVars, moduleVars>>

\* for await (const videoSample of sink.samples(...)): the sink delivers the
\* next sample, or it has none left; at the maxFrames limit the sample is
\* closed and the loop is left
NextSample ==
    /\ framePc = "next"
    /\ IF obtained >= sampleTotal
       THEN /\ framePc' = "returned"
            /\ UNCHANGED <<obtained, sampleCloses>>
       ELSE /\ obtained' = obtained + 1
            /\ IF maxFrames # NoLimit /\ frameCount >= maxFrames
               THEN /\ sampleCloses' = close(sampleCloses, obtained)
                    /\ framePc' = "returned"
               ELSE /\ sampleCloses' = sampleCloses
                    /\ framePc' = "toVideoFrame"
    /\ UNCHANGED <<videoEntry, sampleTotal, maxFrames, frameCount, frameCloses,
                   encodeState>>
    /\ UNCHANGED <<encodeVars, moduleVars>>

\* the sink fails to decode the next sample: the for await of the generator
\* throws outside the try block
SinkThrows ==
    /\ framePc = "next"
    /\ obtained < sampleTotal
    /\ framePc' = "threw"
    /\ UNCHANGED <<videoEntry, sampleTotal, maxFrames, frameCount, obtained,
                   sampleCloses, frameCloses, encodeState>>
    /\ UNCHANGED <<encodeVars, moduleVars>>

\* const videoFrame = videoSample.toVideoFrame(); a throw is caught by the
\* catch block, which closes the sample and throws again
ToVideoFrame(ok) ==
    /\ framePc = "toVideoFrame"
    /\ IF ok
       THEN /\ frameCloses' = [frameCloses EXCEPT ![current] = 0]
            /\ framePc' = "copyTo"
            /\ UNCHANGED sampleCloses
       ELSE /\ sampleCloses' = close(sampleCloses, current)
            /\ framePc' = "threw"
            /\ UNCHANGED frameCloses
    /\ UNCHANGED <<videoEntry, sampleTotal, maxFrames, frameCount, obtained,
                   encodeState>>
    /\ UNCHANGED <<encodeVars, moduleVars>>

\* allocationSize, await copyTo, videoFrame.close(), videoSample.close() and
\* the pixels go to the encoder: by the yield in rgbaFrameGenerator, by the
\* call of encodeRGBAToKtx in videoFrameGenerator.  When allocationSize or
\* copyTo throws, the catch block closes the sample and throws again.
CopyTo(ok) ==
    /\ framePc = "copyTo"
    /\ IF ok
       THEN /\ frameCloses' = close(frameCloses, current)
            /\ sampleCloses' = close(sampleCloses, current)
            /\ encodeState' = [encodeState EXCEPT ![frameCount] = "running"]
            /\ framePc' = "encoding"
       ELSE /\ sampleCloses' = close(sampleCloses, current)
            /\ framePc' = "threw"
            /\ UNCHANGED <<frameCloses, encodeState>>
    /\ UNCHANGED <<videoEntry, sampleTotal, maxFrames, frameCount, obtained>>
    /\ UNCHANGED <<encodeVars, moduleVars>>

\* what becomes of a frame handed to the encoder: it is encoded, validated
\* and pushed; or the encoder rejects; or the consumer's validation throws
FrameOutcomes == {"pushed", "encoderRejects", "validationThrows"}

\* a throw of the encoder reaches the catch block of the generator when the
\* encoder was called inside its try block
caughtByGenerator(e, outcome) ==
    e = "encodeFromVideoUrl" /\ outcome = "encoderRejects"

\* the encode of the frame settles.  Pushed: the consumer asks for the next
\* item and the generator resumes after its yield with frameCount++.  A throw
\* in the body of the consumer's for await closes the generator at its yield:
\* no catch block runs.  A throw inside the generator's try block runs the
\* catch block, which closes the sample and throws again.
FrameSettles(outcome) ==
    /\ framePc = "encoding"
    /\ IF outcome = "pushed"
       THEN /\ encodeState' = [encodeState EXCEPT ![frameCount] = "done"]
            /\ frameCount' = frameCount + 1
            /\ framePc' = "next"
            /\ UNCHANGED sampleCloses
       ELSE /\ encodeState' = [encodeState EXCEPT ![frameCount] =
                                   IF outcome = "encoderRejects" THEN "failed"
                                   ELSE "done"]
            /\ frameCount' = frameCount
            /\ IF caughtByGenerator(videoEntry, outcome)
               THEN /\ sampleCloses' = close(sampleCloses, current)
                    /\ framePc' = "threw"
               ELSE /\ sampleCloses' = sampleCloses
                    /\ framePc' = "closed"
    /\ UNCHANGED <<videoEntry, sampleTotal, maxFrames, obtained, frameCloses>>
    /\ UNCHANGED <<encodeVars, moduleVars>>

NextVideo ==
    \/ \E e \in VideoEntries, total \in 0..MaxSamples,
          limit \in {NoLimit} \cup (0..MaxSamples) : CallFromVideoUrl(e, total, limit)
    \/ NextSample
    \/ SinkThrows
    \/ \E ok \in BOOLEAN : ToVideoFrame(ok)
    \/ \E ok \in BOOLEAN : CopyTo(ok)
    \/ \E outcome \in FrameOutcomes : FrameSettles(outcome)

SpecVideo == Init /\ [][NextVideo]_vars

\* ---- encoder settings
\* const allowed = [...] of configureEncoding
allowed ==
    {"multithreading", "uastcQuality", "rdoQuality", "rdoEnabled", "srgb",
     "mipmaps", "supercompression", "basisTexFormat"}

\* the keys an options object may carry: the allowed ones and one that is not
OptionKeys == allowed \cup {"fileName"}

\* the sets of keys of the options objects passed
OptionSets == {K \in SUBSET OptionKeys : Cardinality(K) <= MaxOptions}

\* the values an options object may give to the allowed keys
OptionValues ==
    [multithreading : {TRUE}, uastcQuality : 0..MaxQuality, rdoQuality : {1},
     rdoEnabled : BOOLEAN, srgb : BOOLEAN, mipmaps : BOOLEAN,
     supercompression : BOOLEAN, basisTexFormat : {1}]

\* for (const k of allowed) if (hasOwnProperty(opts, k)) encodingSettings[k] = opts[k]
configureEncoding(settings, present, values) ==
    [k \in DOMAIN settings |->
        IF k \in allowed /\ k \in present THEN values[k] ELSE settings[k]]

\* ImageToKtx.configure(opts), ImagesToKtxSequential.configure(options), with
\* present the own keys of opts and values what opts gives them
Configure(present, values) ==
    /\ encodingSettings' = configureEncoding(encodingSettings, present, values)
    /\ nativeSettings' = NoNative
    /\ UNCHANGED <<encodeVars, videoVars, workerVars, loaderVars>>

\* the setter calls on the BasisEncoder that take their argument from settings:
\* setKTX2UASTCSupercompression, setFormatMode, setPerceptual and setMipSRGB,
\* setRDOUASTC, setMipGen, setPackUASTCFlags
settersFrom(settings) ==
    [supercompression |-> settings.supercompression,
     basisTexFormat |-> settings.basisTexFormat,
     srgb |-> settings.srgb,
     rdoEnabled |-> settings.rdoEnabled,
     mipmaps |-> settings.mipmaps,
     uastcQuality |-> settings.uastcQuality]

\* the literals encodeRGBAToKtx passes to the same setters
HardCoded ==
    [supercompression |-> FALSE, basisTexFormat |-> 1, srgb |-> TRUE,
     rdoEnabled |-> FALSE, mipmaps |-> TRUE, uastcQuality |-> 1]

\* ImageToKtx.encode encodes the images of ImagesToKtxSequential.encode;
\* KTX2Encoder.fromImageFile and fromRGBA, each on a new KTX2Encoder(), encode
\* the images and video frames of KTX2Assembler.encode; encodeRGBAToKtx encodes
\* the video frames of ImagesToKtxSequential.encodeFromVideoUrl
Encoders == {"ImageToKtx.encode", "KTX2Encoder.encode", "encodeRGBAToKtx"}

nativeSet(encoder, settings) ==
    CASE encoder = "ImageToKtx.encode" -> settersFrom(settings)
      [] encoder = "KTX2Encoder.encode" -> settersFrom(DefaultSettings)
      [] OTHER -> HardCoded

\* one layer is encoded: the native encoder is set up and run
EncodeLayer(encoder) ==
    /\ nativeSettings' = [encoder |-> encoder,
                          set |-> nativeSet(encoder, encodingSettings)]
    /\ UNCHANGED encodingSettings
    /\ UNCHANGED <<encodeVars, videoVars, workerVars, loaderVars>>

NextSettings ==
    \/ \E present \in OptionSets, values \in OptionValues : Configure(present, values)
    \/ \E encoder \in Encoders : EncodeLayer(encoder)

SpecSettings == Init /\ [][NextSettings]_vars

\* ---- the image resizer and its worker
\* what postMessage carries to the worker, and back
TaskMessages == [taskId : TaskIds, valid : BOOLEAN]
ReplyMessages == [taskId : TaskIds, success : BOOLEAN]

\* resolve(result) or reject(error) of task t is called; a promise settles at
\* the first call only
settle(ps, t, outcome) ==
    [ps EXCEPT ![t] = IF @ = "pending" THEN outcome ELSE @]

\* resizeImageToPOT(imageData, fileName, fileExtension): initWorker creates
\* the worker if there is none; the task gets the next id, its handlers are
\* stored and the task is posted.  valid: the three arguments are all truthy.
ResizeImageToPOT(valid) ==
    /\ taskCounter < MaxTasks
    /\ LET taskId == taskCounter + 1
       IN  /\ worker' = "live"
           /\ taskCounter' = taskId
           /\ pendingTasks' = pendingTasks \cup {taskId}
           /\ promises' = [promises EXCEPT ![taskId] = "pending"]
           /\ inbox' = inbox \cup {[taskId |-> taskId, valid |-> valid]}
    /\ UNCHANGED <<settleCalls, replies>>
    /\ UNCHANGED <<encodeVars, videoVars, settingsVars, loaderVars>>

\* self.onmessage of the worker answers a task: failure for missing
\* parameters, else what resizeImageToPOT of the worker returns
WorkerReplies(msg, success) ==
    /\ worker = "live"
    /\ msg \in inbox
    /\ msg.valid \/ ~success
    /\ inbox' = inbox \ {msg}
    /\ replies' = replies \cup {[taskId |-> msg.taskId, success |-> success]}
    /\ UNCHANGED <<worker, taskCounter, pendingTasks, promises, settleCalls>>
    /\ UNCHANGED <<encodeVars, videoVars, settingsVars, loaderVars>>

\* worker.onmessage: the task of the reply's taskId, if it is still pending,
\* is removed and resolved or rejected
OnMessage(reply) ==
    /\ reply \in replies
    /\ replies' = replies \ {reply}
    /\ IF reply.taskId \in pendingTasks
       THEN /\ pendingTasks' = pendingTasks \ {reply.taskId}
            /\ promises' = settle(promises, reply.taskId,
                                  IF reply.success THEN "resolved" ELSE "rejected")
            /\ settleCalls' = [settleCalls EXCEPT ![reply.taskId] = @ + 1]
       ELSE UNCHANGED <<pendingTasks, promises, settleCalls>>
    /\ UNCHANGED <<worker, taskCounter, inbox>>
    /\ UNCHANGED <<encodeVars, videoVars, settingsVars, loaderVars>>

\* worker.onerror: every pending task is rejected and the map is cleared
OnError ==
    /\ worker = "live"
    /\ promises' = [t \in TaskIds |->
                        IF t \in pendingTasks THEN settle(promises, t, "rejected")[t]
                        ELSE promises[t]]
    /\ settleCalls' = [t \in TaskIds |->
                           IF t \in pendingTasks THEN settleCalls[t] + 1
                           ELSE settleCalls[t]]
    /\ pendingTasks' = {}
    /\ UNCHANGED <<worker, taskCounter, inbox, replies>>
    /\ UNCHANGED <<encodeVars, videoVars, settingsVars, loaderVars>>

\* terminateWorker(): the worker is terminated and forgotten and the map is
\* cleared; the worker answers no task any more, and a message it had already
\* sent may still reach the handler
TerminateWorker ==
    /\ worker = "live"
    /\ worker' = "null"
    /\ pendingTasks' = {}
    /\ inbox' = {}
    /\ UNCHANGED <<taskCounter, promises, settleCalls, replies>>
    /\ UNCHANGED <<encodeVars, videoVars, settingsVars, loaderVars>>

NextResizer ==
    \/ \E valid \in BOOLEAN : ResizeImageToPOT(valid)
    \/ \E msg \in TaskMessages, success \in BOOLEAN : WorkerReplies(msg, success)
    \/ \E reply \in ReplyMessages : OnMessage(reply)
    \/ OnError
    \/ TerminateWorker

SpecResizer == Init /\ [][NextResizer]_vars

\* ---- the loader of the encoder module
\* calls of loadBasisModule made so far
calls == Cardinality({c \in CallNumbers : returned[c] # NotReturned})

\* loadBasisModule is an async function: what call c returns to its caller is
\* a promise of its own, resolved with the value of the return statement
asyncReturn(c, value) ==
    [promise |-> c, state |-> "pending"]

\* loadBasisModule(): with no basisPromise yet, the promise is made and its
\* executor appends the script element; return basisPromise
LoadBasisModule ==
    /\ calls < MaxCalls
    /\ IF basisPromise = "null"
       THEN /\ basisPromise' = "pending"
            /\ injected' = injected + 1
            /\ loadPc' = "script"
       ELSE UNCHANGED <<basisPromise, injected, loadPc>>
    /\ returned' = [returned EXCEPT ![calls + 1] = asyncReturn(calls + 1, TheBasisPromise)]
    /\ UNCHANGED <<basisModule, got>>
    /\ UNCHANGED <<encodeVars, videoVars, settingsVars, workerVars>>

\* script.onload up to its await: reject when BASIS is not defined
ScriptLoads(defined) ==
    /\ loadPc = "script"
    /\ IF defined
       THEN loadPc' = "init" /\ UNCHANGED basisPromise
       ELSE loadPc' = "BASIS is not defined" /\ basisPromise' = "rejected"
    /\ UNCHANGED <<basisModule, injected, returned, got>>
    /\ UNCHANGED <<encodeVars, videoVars, settingsVars, workerVars>>

\* script.onerror
ScriptFails ==
    /\ loadPc = "script"
    /\ loadPc' = "Failed to load"
    /\ basisPromise' = "rejected"
    /\ UNCHANGED <<basisModule, injected, returned, got>>
    /\ UNCHANGED <<encodeVars, videoVars, settingsVars, workerVars>>

\* how await BASIS(moduleConfig) and what follows it end
InitOutcomes == {"initialized", "noInitializeBasis", "thrown"}

\* script.onload after its await: basisModule = module; resolve(module), or
\* reject when the module has no initializeBasis or something was thrown
ModuleSettles(outcome) ==
    /\ loadPc = "init"
    /\ loadPc' = outcome
    /\ IF outcome = "initialized"
       THEN basisModule' = "module" /\ basisPromise' = "resolved"
       ELSE basisModule' = basisModule /\ basisPromise' = "rejected"
    /\ UNCHANGED <<injected, returned, got>>
    /\ UNCHANGED <<encodeVars, videoVars, settingsVars, workerVars>>

\* the promise call c returned takes the outcome of basisPromise
Adopts(c) ==
    /\ returned[c].state = "pending"
    /\ basisPromise \in {"resolved", "rejected"}
    /\ returned' = [returned EXCEPT ![c].state = basisPromise]
    /\ UNCHANGED <<basisPromise, basisModule, injected, loadPc, got>>
    /\ UNCHANGED <<encodeVars, videoVars, settingsVars, workerVars>>

\* getBasisModule()
GetBasisModule ==
    /\ got' = basisModule
    /\ UNCHANGED <<basisPromise, basisModule, injected, loadPc, returned>>
    /\ UNCHANGED <<encodeVars, videoVars, settingsVars, workerVars>>

NextLoader ==
    \/ LoadBasisModule
    \/ \E defined \in BOOLEAN : ScriptLoads(defined)
    \/ ScriptFails
    \/ \E outcome \in InitOutcomes : ModuleSettles(outcome)
    \/ \E c \in CallNumbers : Adopts(c)
    \/ GetBasisModule

SpecLoader == Init /\ [][NextLoader]_vars

\* ---- properties

N == Len(encodedLayers)
Assembled == pc = "resolved" /\ entry = "encode"
BaseScheme == baseParams.baseSupercompression
ExactSizeAt(m) ==
    uastcBytesPerImageAtLevel(m - 1, baseParams.baseWidth, baseParams.baseHeight)
\* the level buffer of layer i (1-based) at mip m (1-based)
SourceOf(i, m) == Bytes(encodedLayers[i].levels[m].levelData)
\* the index a labelled byte had in its source buffer
IndexOfByte(b) == b % 100

\* C1: in every assembled array of at least two layers, in every combined mip
\* level, layer i is written at a strictly smaller offset than layer i+1, under
\* either scheme, and what is written there are the bytes of input layer i.
C1_LayerOffsetsAscend ==
    (Assembled /\ N >= 2) =>
        \A m \in 1..Len(combinedLevels) :
            LET L == combinedLevels[m]
            IN  /\ Len(L.starts) = N
                /\ \A i \in 1..(N - 1) : L.starts[i] < L.starts[i + 1]
                /\ \A i \in 1..N : L.levelData[L.starts[i] + 1] = SrcByte(i - 1, m - 1, 1)

C1_Witness ==
    /\ Assembled
    /\ N = 3
    /\ Len(combinedLevels) = 2
    /\ BaseScheme = ZSTD
    /\ encodedLayers[1].levels[1].levelData.byteLength
           # encodedLayers[2].levels[1].levelData.byteLength

\* C2: with scheme 0 every layer has a slot of E + ((8 - E mod 8) mod 8)
\* bytes in each combined level: layer i starts at i * slot and the buffer is
\* layerCount * slot long, whatever the length of the source buffers.
C2_SlotLayout ==
    (Assembled /\ BaseScheme = 0) =>
        \A m \in 1..Len(combinedLevels) :
            LET L == combinedLevels[m]
                E == ExactSizeAt(m)
                slot == E + ((8 - (E % 8)) % 8)
            IN  /\ Len(L.levelData) = N * slot
                /\ \A i \in 1..N : L.starts[i] = (i - 1) * slot

\* C3: with scheme 0, where layer i is written the combined level holds the
\* first exactSize bytes of the layer's source buffer and then pad zero bytes,
\* and no source byte of index >= exactSize is anywhere in the combined level.
C3_TrimmedThenPadded ==
    (Assembled /\ BaseScheme = 0) =>
        \A m \in 1..Len(combinedLevels) :
            LET L == combinedLevels[m]
                E == ExactSizeAt(m)
                pad == (8 - (E % 8)) % 8
            IN  /\ \A i \in 1..N :
                       Len(SourceOf(i, m)) >= E =>
                           /\ L.starts[i] + E + pad <= Len(L.levelData)
                           /\ \A k \in 1..E :
                                  L.levelData[L.starts[i] + k] = SourceOf(i, m)[k]
                           /\ \A k \in 1..pad : L.levelData[L.starts[i] + E + k] = 0
                /\ \A k \in 1..Len(L.levelData) :
                       L.levelData[k] = 0 \/ IndexOfByte(L.levelData[k]) <= E

C3_Witness ==
    /\ Assembled
    /\ BaseScheme = 0
    /\ N >= 2
    /\ \E i \in 1..N : Len(SourceOf(i, 1)) > ExactSizeAt(1)

\* the level buffers of layers i..N at mip m, one after the other
RECURSIVE ConcatFrom(_, _)
ConcatFrom(i, m) == IF i > N THEN <<>> ELSE SourceOf(i, m) \o ConcatFrom(i + 1, m)

\* C4: with a scheme other than 0 every combined level is the level buffers of
\* the layers one after the other in layer order, nothing trimmed, nothing
\* inserted, its length the sum of their lengths.
C4_VerbatimConcatenation ==
    (Assembled /\ BaseScheme # 0) =>
        \A m \in 1..Len(combinedLevels) :
            combinedLevels[m].levelData = ConcatFrom(1, m)

C4_Witness ==
    /\ Assembled
    /\ BaseScheme # 0
    /\ N >= 2
    /\ \E i \in 1..N : Len(SourceOf(i, 1)) > ExactSizeAt(1)
    /\ \E i \in 1..N : Len(SourceOf(i, 1)) < ExactSizeAt(1)

RECURSIVE UncompressedFrom(_, _)
UncompressedFrom(i, m) ==
    IF i > N THEN 0
    ELSE encodedLayers[i].levels[m].uncompressedByteLength + UncompressedFrom(i + 1, m)

\* C5: the uncompressedByteLength of a combined level is the length of its
\* buffer when the scheme is 0, and the sum of the layers' own
\* uncompressedByteLength otherwise.
C5_UncompressedByteLength ==
    Assembled =>
        \A m \in 1..Len(combinedLevels) :
            LET L == combinedLevels[m]
            IN  IF BaseScheme = 0
                THEN L.uncompressedByteLength = Len(L.levelData)
                ELSE L.uncompressedByteLength = UncompressedFrom(1, m)

C5_Witness ==
    /\ Assembled
    /\ BaseScheme # 0
    /\ N >= 2
    /\ combinedLevels[1].uncompressedByteLength # Len(combinedLevels[1].levelData)

\* 0-based index of the layer whose header is in parsed
LastIndex == IF pc = "encode" THEN pulled - 2 ELSE pulled - 1
\* parsed is the header of a layer that went through validation
WasValidated == parsed # NoParsed /\ LastIndex >= 1

FormatsClash ==
    /\ baseParams.baseFormat # 0
    /\ parsed.vkFormat # 0
    /\ parsed.vkFormat # baseParams.baseFormat
DimsDiffer ==
    \/ parsed.pixelWidth # baseParams.baseWidth
    \/ parsed.pixelHeight # baseParams.baseHeight
MipsDiffer == parsed.levelCount # baseParams.firstLayerMipCount

\* C6: validation of a layer fails on its format if and only if the base
\* format and the layer's format are both non-zero and unequal.
C6_FormatValidation ==
    WasValidated =>
        ((pc = "rejected" /\ err.kind = "format") <=> FormatsClash)

C6_Witness ==
    /\ WasValidated
    /\ pc = "rejected"
    /\ err.kind = "format"

SizeError ==
    /\ pc = "rejected"
    /\ err = Error("size", LastIndex,
                   <<baseParams.baseWidth, baseParams.baseHeight>>,
                   <<parsed.pixelWidth, parsed.pixelHeight>>)

\* C7 as claimed: every layer after the first whose width or height differs
\* from the first layer's is rejected with the size-mismatch error carrying
\* its index and the expected and actual dimensions, and no other layer is.
C7_Original ==
    WasValidated =>
        /\ DimsDiffer => SizeError
        /\ ~DimsDiffer => err.kind # "size"

\* C7: every layer after the first whose width or height differs from the
\* first layer's is rejected with an error carrying its index: the
\* format-mismatch error when its format clashes too, else the size-mismatch
\* error with the expected and actual dimensions; a layer with equal width
\* and height never raises the size-mismatch error.
C7_SizeValidation ==
    WasValidated =>
        /\ DimsDiffer =>
               /\ pc = "rejected"
               /\ err.index = LastIndex
               /\ IF FormatsClash THEN err.kind = "format" ELSE SizeError
        /\ ~DimsDiffer => err.kind # "size"

C7_Witness ==
    /\ WasValidated
    /\ SizeError
    /\ parsed.pixelWidth = baseParams.baseWidth
    /\ parsed.pixelHeight # baseParams.baseHeight

MipCountError ==
    /\ pc = "rejected"
    /\ err = Error("mipcount", LastIndex,
                   <<baseParams.firstLayerMipCount>>, <<parsed.levelCount>>)

\* every kept layer has the number of levels of the first, which is the mip
\* count of the base parameters, and the assembler never misses a level
SameMipCounts ==
    /\ N >= 1 => baseParams.firstLayerMipCount = Len(encodedLayers[1].levels)
    /\ \A i \in 1..N : Len(encodedLayers[i].levels) = Len(encodedLayers[1].levels)
    /\ Assembled => Len(combinedLevels) = Len(encodedLayers[1].levels)
    /\ (pc = "rejected" /\ err.kind = "TypeError") => N = 0

\* C8 as claimed: the mip count is that of the first layer, and every later
\* layer with another number of levels is rejected with the mip-count-mismatch
\* error naming its index; so all layers of an assembled array have the same
\* number of levels and every level the assembler reads exists.
C8_Original ==
    /\ WasValidated => (MipsDiffer => MipCountError)
    /\ SameMipCounts

\* C8: the mip count is that of the first layer, and every later layer with
\* another number of levels is rejected with an error naming its index: the
\* format- or size-mismatch error when its format or dimensions mismatch too,
\* else the mip-count-mismatch error; so all layers of an assembled array have
\* the same number of levels and every level the assembler reads exists.
C8_MipCountValidation ==
    /\ WasValidated =>
           (MipsDiffer =>
               /\ pc = "rejected"
               /\ err.index = LastIndex
               /\ IF FormatsClash THEN err.kind = "format"
                  ELSE IF DimsDiffer THEN SizeError
                  ELSE MipCountError)
    /\ SameMipCounts

C8_Witness ==
    /\ WasValidated
    /\ MipCountError
    /\ N = 2

\* layer i (1-based) of encodedLayers is consistent with the base parameters
Consistent(i) ==
    /\ ~(baseParams.baseFormat # 0 /\ encodedLayers[i].format # 0
            /\ encodedLayers[i].format # baseParams.baseFormat)
    /\ encodedLayers[i].width = baseParams.baseWidth
    /\ encodedLayers[i].height = baseParams.baseHeight
    /\ Len(encodedLayers[i].levels) = baseParams.firstLayerMipCount

\* C9: a layer that fails validation is never kept, and the call then is
\* rejected with the consistency error of that layer's index, with no combined
\* level allocated, no later item pulled from the source or encoded, no
\* container built or written, and nothing more happens.
C9_AbortsAtFailingLayer ==
    /\ \A i \in 1..N : Consistent(i)
    /\ (WasValidated /\ (FormatsClash \/ DimsDiffer \/ MipsDiffer)) =>
           (pc = "rejected" /\ err.kind \in ConsistencyErrors)
    /\ err.kind \in ConsistencyErrors =>
           /\ pc = "rejected"
           /\ err.index = N
           /\ pulled = N + 1
           /\ encoderCalls = pulled
           /\ combinedLevels = <<>>
           /\ assemblerCalls = 0
           /\ arrayContainer = NoContainer
           /\ ~written
           /\ ~ENABLED Next

C9_Witness ==
    /\ pc = "rejected"
    /\ err.kind = "size"
    /\ err.index = 1
    /\ pulled = 2
    /\ pulled < MaxLayers

\* C10: a call that was given no layer at all ends rejected with an input
\* error, with the encoder and the level assembler never called.
C10_ZeroLayersInputError ==
    (pulled = 0 /\ pc \in {"resolved", "rejected"}) =>
        /\ pc = "rejected"
        /\ err.kind \in InputErrors
        /\ encoderCalls = 0
        /\ assemblerCalls = 0

\* the vkFormat a UASTC 4x4 file declares: the format of 4x4 blocks of 16 bytes
UastcFormat == 0

\* C11: when the layers declare a format other than the 4x4-block,
\* 16-bytes-per-block one, the level assembler ends with an unsupported-format
\* error and builds no combined level with the 4x4/16-byte rule.
C11_UnsupportedFormatFails ==
    (assemblerCalls >= 1 /\ N >= 1 /\ baseParams.baseFormat # UastcFormat) =>
        /\ pc = "rejected"
        /\ err.kind = "UnsupportedFormat"
        /\ combinedLevels = <<>>
        /\ ~written

\* C12: whenever the encoder fails on a layer, whether it reports zero output
\* bytes, rejects an HDR source or raises, the call ends rejected with that
\* encoder error, no container is built or written, and the call is not left
\* pending.
C12_EncoderFailureRejects ==
    (encoderFailure # "none") =>
        /\ pc = "rejected"
        /\ err.kind = encoderFailure
        /\ arrayContainer = NoContainer
        /\ ~written

\* the call built a container from the layers it kept
Built == pc = "resolved" /\ entry \in UrlEntries \cup SourceEntries

\* C13: the container built for N layers has faceCount 1, pixelDepth 0,
\* globalData null, layerCount N, levelCount the number of combined levels,
\* keyValue the first layer's keyValue or an empty mapping when the first
\* layer has none, and vkFormat, typeSize, the pixel dimensions, the scheme
\* and the data format descriptor of the first layer.
C13_ContainerFields ==
    Built =>
        /\ arrayContainer.faceCount = 1
        /\ arrayContainer.pixelDepth = 0
        /\ arrayContainer.globalData = "null"
        /\ arrayContainer.layerCount = N
        /\ arrayContainer.levelCount = Len(combinedLevels)
        /\ arrayContainer.keyValue =
               (IF baseParams.baseKeyValue = "undefined" THEN "{}"
                ELSE baseParams.baseKeyValue)
        /\ arrayContainer.keyValue \in {"{}", "{KTXwriter}"}
        /\ arrayContainer.vkFormat = encodedLayers[1].format
        /\ arrayContainer.pixelWidth = encodedLayers[1].width
        /\ arrayContainer.pixelHeight = encodedLayers[1].height
        /\ arrayContainer.typeSize = baseParams.baseTypeSize
        /\ arrayContainer.supercompressionScheme = baseParams.baseSupercompression
        \* the descriptor of the layer made from source item 0
        /\ arrayContainer.dataFormatDescriptor = 0
        /\ arrayContainer.dataFormatDescriptor =
               encodedLayers[1].levels[1].levelData.src

C13_Witness ==
    /\ Built
    /\ N = 3
    /\ arrayContainer.keyValue = "{}"
    /\ arrayContainer.levelCount = 2
    /\ arrayContainer.vkFormat = 1
    /\ encodedLayers[2].format = 0

\* C14: under fromImageUrls, whenever fetches settle, the item being encoded
\* and validated is the URL whose index is the number of layers already kept,
\* the k-th kept layer was made from the k-th URL, and in the array built from
\* all URLs the k-th layer of every combined level holds the bytes of the
\* k-th URL's layer.
C14_SourceOrder ==
    /\ pc = "encode" => item = N
    /\ \A k \in 1..N :
           \A m \in 1..Len(encodedLayers[k].levels) :
               encodedLayers[k].levels[m].levelData.src = k - 1
    /\ pc = "resolved" =>
           /\ N = urlCount
           /\ \A m \in 1..Len(combinedLevels) :
                  /\ Len(combinedLevels[m].starts) = N
                  /\ \A k \in 1..N :
                         combinedLevels[m].levelData[combinedLevels[m].starts[k] + 1]
                             = SrcByte(k - 1, m - 1, 1)

C14_Witness ==
    /\ pc = "resolved"
    /\ N = 3
    /\ \A k \in 0..2 : fetchState[k] = "ok"

\* the kept layers whose level buffers are still referenced
Retained ==
    {k \in 1..N :
        \E m \in 1..Len(encodedLayers[k].levels) :
            encodedLayers[k].levels[m].levelData.byteLength > 0}

\* C16: under fromImageUrls, at every moment at most one encoded layer has its
\* level buffers retained, however many layers there are.
C16_RetainedLayersBounded ==
    Cardinality(Retained) <= 1

UrlIndexes == 0..(MaxLayers - 1)
\* the call has returned to its caller
Ended == pc \in {"rejected", "resolved"}
FetchError(k) == Error("FetchError", k, <<>>, <<>>)

\* once the fetch of a URL has failed, no fetch of a later URL is ever started
NoFetchPastFailure ==
    \A k \in UrlIndexes :
        fetchState[k] = "failed" =>
            \A j \in UrlIndexes : j > k => fetchState[j] = "idle"

\* C17: under fromImageUrls, when the fetch of URL k has failed, no fetch of
\* a later URL is ever started, and the call ends rejected with the fetch
\* error of URL k, with no container built or written.
C17_FetchFailureAborts ==
    /\ NoFetchPastFailure
    /\ \A k \in UrlIndexes :
           (fetchState[k] = "failed" /\ Ended) =>
               /\ pc = "rejected"
               /\ err = FetchError(k)
               /\ arrayContainer = NoContainer
               /\ ~written

\* C18: under fromImageUrls, the failure of a lookahead fetch (the fetch of
\* URL i+1, started while layer i is in flight) is what the call is rejected
\* with, once, in every interleaving: also when the encode or the validation
\* of layer i fails, and whether the fetch fails before or after layer i ends.
C18_LookaheadFailureSurfaces ==
    \A i \in UrlIndexes :
        (i + 1 \in UrlIndexes /\ fetchState[i + 1] = "failed" /\ Ended) =>
            /\ err.kind = "FetchError"
            /\ err.index = i + 1

\* x halved m times, each time rounded down
RECURSIVE HalvedTimes(_, _)
HalvedTimes(x, m) == IF m = 0 THEN x ELSE HalvedTimes(x \div 2, m - 1)
\* the dimension of mip m: halved m times, never below 1
DimAtMip(x, m) == IF HalvedTimes(x, m) >= 1 THEN HalvedTimes(x, m) ELSE 1
\* the number of blocks of 4 texels that cover x texels
BlocksCovering(x) == CHOOSE c \in 1..x : 4 * c >= x /\ 4 * (c - 1) < x

\* C20: the exact size of one layer at mip m of a W x H base is
\* ceil(max(1, W >> m) / 4) * ceil(max(1, H >> m) / 4) * 16; for 1024 x 1024
\* it is 1,048,576 at mip 0, 262,144 at mip 1, a quarter of the level above
\* while the level is larger than one block, and 16 at the 1 x 1 level.
C20_ExactSizeAtMip ==
    sized.level >= 0 =>
        /\ sized.bytes = BlocksCovering(DimAtMip(sized.width, sized.level))
                           * BlocksCovering(DimAtMip(sized.height, sized.level)) * 16
        /\ (sized.width = 1024 /\ sized.height = 1024) =>
               /\ sized.level = 0 => sized.bytes = 1048576
               /\ sized.level = 1 => sized.bytes = 262144
               /\ sized.level \in 0..8 => sized.bytes * (4 ^ sized.level) = 1048576
               /\ sized.level = 10 =>
                      /\ DimAtMip(1024, 10) = 1
                      /\ sized.bytes = 16

C20_Witness ==
    sized = [width |-> 1024, height |-> 1024, level |-> 10, bytes |-> 16]


\* C21 as stated: four layers of base size 512 x 512 without supercompression:
\* at mip 0 one layer takes exactly 16384 bytes, the padding per layer is 0 and
\* the combined buffer of mip 0 is 65536 bytes long
C21_ScenarioA_Stated ==
    (/\ slotted.width = 512
     /\ slotted.height = 512
     /\ slotted.layerCount = 4
     /\ slotted.mipLevel = 0)
    => /\ slotted.exactSize = 16384
       /\ slotted.perImagePadding = 0
       /\ slotted.totalSize = 65536

\* C21: four layers of base size 512 x 512 without supercompression: at mip 0
\* one layer takes exactly 262144 bytes (128 x 128 blocks of 16 bytes), the
\* padding per layer is 0 and the combined buffer of mip 0 is 1048576 bytes long
C21_ScenarioA ==
    (/\ slotted.width = 512
     /\ slotted.height = 512
     /\ slotted.layerCount = 4
     /\ slotted.mipLevel = 0)
    => /\ slotted.exactSize = 262144
       /\ slotted.perImagePadding = 0
       /\ slotted.totalSize = 1048576

C21_Witness ==
    /\ slotted.width = 512
    /\ slotted.height = 512
    /\ slotted.layerCount = 4
    /\ slotted.mipLevel = 0
    /\ slotted.totalSize > 0

\* C22: validation covers the compression scheme: a layer after the first
\* whose supercompressionScheme differs from the first layer's is rejected.
C22_SchemeValidated ==
    (WasValidated /\ parsed.supercompressionScheme # BaseScheme) =>
        pc = "rejected"

\* the fetches in flight
Outstanding == {k \in UrlIndexes : fetchState[k] = "pending"}
\* the fetches started so far
Started == {k \in UrlIndexes : fetchState[k] # "idle"}

\* while layer i is with the encoder, the fetch of URL i+1 has been started
\* and that of URL i+2 has not; while the consumer waits for item i, no fetch
\* beyond URL i has been started
OneStepLookahead ==
    /\ (pc = "encode" /\ item + 1 < urlCount) => (item + 1) \in Started
    /\ pc = "encode" => pulled = item + 1
    /\ \A k \in Started : k <= pulled /\ k < urlCount

\* a fetch is started only for a URL that has not been fetched before
FetchedOnce ==
    \A k \in UrlIndexes :
        (fetchState[k] # "pending" /\ fetchState'[k] = "pending") =>
            fetchState[k] = "idle"

\* C26: the image source keeps exactly one step of lookahead: the fetch of URL
\* i+1 is started before layer i is handed to the encoder, the fetch of URL
\* i+2 is not started until the consumer has finished layer i and asked for
\* the next item, at most one fetch is outstanding at any moment, and every
\* URL is fetched at most once.
C26_OneStepLookahead ==
    /\ [](OneStepLookahead /\ Cardinality(Outstanding) <= 1)
    /\ [][FetchedOnce]_vars

C26_Witness ==
    /\ pc = "encode"
    /\ item = 0
    /\ urlCount = MaxLayers
    /\ fetchState[1] = "pending"
    /\ fetchState[2] = "idle"

\* the number of bytes layer i (1-based) contributes to mip m (1-based)
WrittenLen(i, m) ==
    LET len == encodedLayers[i].levels[m].levelData.byteLength
    IN  IF BaseScheme = 0 THEN Min(len, ExactSizeAt(m)) ELSE len

\* C27: while a mip level is assembled, write offset plus bytes written never
\* exceeds the length of the combined buffer, under either scheme, and after
\* the last layer the offset equals the length of the buffer; a write past
\* the end ends the call with an error and nothing is written out.
C27_WritesInBounds ==
    /\ Assembled =>
           \A m \in 1..Len(combinedLevels) :
               LET L == combinedLevels[m]
               IN  /\ \A i \in 1..N :
                          L.starts[i] + WrittenLen(i, m) <= Len(L.levelData)
                   /\ L.offset = Len(L.levelData)
    /\ err.kind = "RangeError" => (pc = "rejected" /\ ~written)

\* the non-zero formats the layers of the array declare
DeclaredFormats == {encodedLayers[i].format : i \in 1..N} \ {0}

\* C28: in every assembled array all layers that declare a non-zero format
\* declare the same one, and the container's vkFormat is that format whenever
\* a layer declares one, also when the first layer's format is 0.
C28_OneFormat ==
    (Assembled /\ arrayContainer # NoContainer) =>
        /\ Cardinality(DeclaredFormats) <= 1
        /\ DeclaredFormats # {} => arrayContainer.vkFormat \in DeclaredFormats

\* frame n of the video is to be processed: the sink has a sample for it and
\* the maxFrames limit lets it through
FrameWanted(n) ==
    /\ n < sampleTotal
    /\ maxFrames = NoLimit \/ n < maxFrames

\* C23: in the video pipeline the decode and pixel extraction of frame N+1 is
\* started before the encode of frame N has finished: once frame N is encoded
\* and the pipeline goes on, the generator already has the sample of frame N+1.
C23_DecodeOverlapsEncode ==
    \A n \in SampleIndexes :
        (/\ framePc \notin {"threw", "closed"}
         /\ encodeState[n] = "done"
         /\ FrameWanted(n + 1))
        => obtained > n + 1

\* samples whose loop body has ended
Finished ==
    IF framePc \in {"toVideoFrame", "copyTo"} THEN 0..(current - 1)
    ELSE 0..(obtained - 1)

\* C24: the frame generators hold one video frame at a time and close it
\* right after pixel extraction: every VideoSample obtained and every
\* VideoFrame made is closed exactly once before the generator moves to the
\* next sample or terminates, on the normal path, at the maxFrames limit and
\* when extraction or encoding throws.
C24_ClosedExactlyOnce ==
    /\ Cardinality({k \in SampleIndexes : frameCloses[k] = 0}) <= 1
    /\ \A k \in Finished :
           /\ sampleCloses[k] = 1
           /\ frameCloses[k] \in {NoFrame, 1}

\* the settings the claim names
NamedSettings == {"mipmaps", "supercompression", "srgb", "uastcQuality", "rdoEnabled"}

\* C25: the settings set through ImageToKtx.configure are those every later
\* layer encode uses, video frames included: configure changes allowed keys
\* only, and the mipmaps, supercompression, srgb, uastcQuality and rdoEnabled
\* values set on the native encoder equal the configured ones.
C25_ConfiguredSettingsUsed ==
    /\ DOMAIN encodingSettings = allowed
    /\ nativeSettings.encoder # "none" =>
           \A k \in NamedSettings : nativeSettings.set[k] = encodingSettings[k]

\* C29: every promise resizeImageToPOT returned is settled exactly once
\* whatever the interleaving of calls, replies, worker errors and
\* terminateWorker: task ids are never reused, a reply settles the task of
\* its id only, a worker error rejects every pending task, and a promise not
\* yet settled still has its handlers in pendingTasks, also after terminate.
C29_EveryTaskSettled ==
    \A t \in TaskIds :
        /\ settleCalls[t] <= 1
        /\ promises[t] = "none" <=> t > taskCounter
        /\ t \in pendingTasks => promises[t] = "pending"
        /\ promises[t] = "pending" => t \in pendingTasks

\* the promises loadBasisModule has returned, by identity
ReturnedPromises == {returned[c].promise : c \in 1..calls}

\* C30: after any sequence of loadBasisModule calls, also while a load is in
\* flight or after one failed, the encoder script has been injected at most
\* once and every call has returned the same promise; getBasisModule returns
\* null until that promise has resolved and the initialized module thereafter.
C30_LoadedOnce ==
    /\ injected <= 1
    /\ Cardinality(ReturnedPromises) <= 1
    /\ basisModule = (IF basisPromise = "resolved" THEN "module" ELSE "null")
    /\ got = "module" => basisPromise = "resolved"
====
